---- MODULE Spec2Model ----
(***************************************************************************)
(* Model of resilient_dns.py: the PhoneBook store (load / get / update     *)
(* behind one lock, mirrored to a JSON file), the port-scanning health     *)
(* check, and UniversalResolver.resolve run by concurrent request threads. *)
(*                                                                         *)
(* Text (domain names, keys, addresses, MX entries) is modelled as a       *)
(* sequence of one-character strings so that rstrip, split, int() and      *)
(* f-string formatting are computed rather than assumed.                   *)
(***************************************************************************)
EXTENDS Integers, Sequences, FiniteSets, TLC

\* ------------------------------------------------------------------ bounds
\* Most ports that accept a connection during one health check.
MaxOpen == 2
\* Most operations (queries and direct store calls) started in one run.
MaxOps == 2

\* Most calls (get, update, and changes to a returned list) made on the
\* stand-alone store.
MaxCalls == 3

\* The request threads the server runs at once, and "no thread".
Threads == {1, 2}
NoThread == 0

\* ------------------------------------------------------------------- text
Digits == <<"0", "1", "2", "3", "4", "5", "6", "7", "8", "9">>

\* The decimal digit d (0..9) as a character.
DigitChar(d) == Digits[d + 1]

\* The value of a digit character.
DigitVal(c) == CHOOSE d \in 0..9 : Digits[d + 1] = c

IsDigit(c) == \E d \in 0..9 : Digits[d + 1] = c

\* str(n) for a non-negative integer.
RECURSIVE IntStr(_)
IntStr(n) == IF n < 10 THEN <<DigitChar(n)>>
             ELSE IntStr(n \div 10) \o <<DigitChar(n % 10)>>

\* int(s) succeeds: a non-empty run of digits (the only characters of the
\* model's alphabet int() accepts).
IsInt(s) == Len(s) > 0 /\ \A i \in 1..Len(s) : IsDigit(s[i])

\* int(s) for a run of digits.
RECURSIVE ToInt(_)
ToInt(s) == IF Len(s) = 0 THEN 0
            ELSE 10 * ToInt(SubSeq(s, 1, Len(s) - 1)) + DigitVal(s[Len(s)])

\* s.rstrip(c)
RECURSIVE RStrip(_, _)
RStrip(s, c) == IF Len(s) > 0 /\ s[Len(s)] = c
                THEN RStrip(SubSeq(s, 1, Len(s) - 1), c)
                ELSE s

\* Index of the first c in s, 0 when there is none.
FirstIndex(s, c) == IF \E i \in 1..Len(s) : s[i] = c
                    THEN CHOOSE i \in 1..Len(s) :
                           s[i] = c /\ \A j \in 1..(i - 1) : s[j] # c
                    ELSE 0

\* s.split(c): the list of the parts between the separators.
RECURSIVE Split(_, _)
Split(s, c) == LET i == FirstIndex(s, c)
               IN IF i = 0 THEN <<s>>
                  ELSE <<SubSeq(s, 1, i - 1)>> \o Split(SubSeq(s, i + 1, Len(s)), c)

\* sep.join(parts)
RECURSIVE Join(_, _)
Join(parts, sep) == IF Len(parts) = 0 THEN <<>>
                    ELSE IF Len(parts) = 1 THEN parts[1]
                    ELSE parts[1] \o sep \o Join(Tail(parts), sep)

\* The elements of a list.
Range(s) == {s[i] : i \in 1..Len(s)}

\* list(S) of a set: its elements once each, in an order the language
\* leaves unspecified (one fixed order per set here).
ListOfSet(S) == CHOOSE s \in [1..Cardinality(S) -> S] : Range(s) = S

\* ------------------------------------------------------------- DNS values
\* Addresses the upstream resolver may return for an A query (dnspython
\* rdata, as octets).
Addr1 == <<10, 0, 0, 1>>
Addr2 == <<10, 0, 0, 2>>

\* str(r) of an A rdata: the dotted quad.
StrA(addr) == Join([i \in 1..Len(addr) |-> IntStr(addr[i])], <<".">>)

\* f"{r.preference}:{r.exchange}" of an MX rdata.
FormatMX(r) == IntStr(r.preference) \o <<":">> \o r.exchange

\* An MX rdata the upstream resolver may return: preference 10, exchange
\* "m." (dnspython prints an absolute name with its trailing dot).
Mx1 == [preference |-> 10, exchange |-> <<"m", ".">>]

IP1 == StrA(Addr1)
IP2 == StrA(Addr2)
\* A stored string that is no dotted quad: a host name.
HOST == <<"h">>
MXE == FormatMX(Mx1)

\* Query names as the server hands them over (str(qname) ends with a dot).
QNames == {<<"a", ".">>}

QTypes == {"A", "AAAA", "MX", "TXT"}

\* domain = qname.rstrip('.')
DomainOf(qname) == RStrip(qname, ".")

\* key = f"MX:{domain}"
MXKeyBare(domain) == domain

MXKey(domain) == <<"M", "X", ":">> \o domain

\* The store keys the queries of the model use.
Keys == {DomainOf(q) : q \in QNames} \cup {MXKey(DomainOf(q)) : q \in QNames}

\* What upstream.resolve(domain, 'A') may answer with (no exception).
UpstreamA == {<<>>, <<Addr1>>, <<Addr1, Addr2>>}

\* The value lists a key may have in the file found at startup: one
\* address (no MX entry), or a host name and an MX entry (neither is an
\* address, and the host name is no MX entry).
InitLists == {<<IP1>>, <<HOST, MXE>>}

\* The lists handed to a direct PhoneBook.update call.
ApiData == {<<>>, <<HOST>>, <<IP1, HOST>>}

\* What upstream.resolve(domain, 'MX') may answer with (no exception).
UpstreamMX == {<<>>, <<Mx1>>}

\* ------------------------------------------------------------------ state
VARIABLES
  cache,   \* PhoneBook.cache: key -> list of strings (a dict: partial)
  lock,    \* PhoneBook.lock: the thread holding it, or NoThread
  disk,    \* the file at PHONE_BOOK_FILE
  log,     \* the lines printed to stdout
  pc,      \* each thread's position in resolve / get / update
  loc,     \* each thread's local variables
  saved,   \* history: the mapping of the last successful write (or load)
  merged,  \* history: per key, the loaded values and all values merged since
  ops,     \* history: operations started so far
  probe,   \* input and result of a stand-alone check_ip_health call
  mem,     \* the list objects of a stand-alone store, by reference
  loaded   \* history: the mapping loaded at startup

vars ==
  <<cache, lock, disk, log, pc, loc, saved, merged, ops, probe, mem, loaded>>

\* The empty dict.
EmptyMap == <<>>

\* cache.get(key, [])
CacheGet(c, key) == IF key \in DOMAIN c THEN c[key] ELSE <<>>

\* c[key] = value
CachePut(c, key, value) ==
  [k \in (DOMAIN c) \cup {key} |-> IF k = key THEN value ELSE c[k]]

\* The values stored under a key, as a set.
ValueSet(c, key) == Range(CacheGet(c, key))

\* The file: absent, text that does not parse (garbage, empty or cut
\* short), or the JSON text of a mapping.
AbsentFile == [kind |-> "absent", data |-> EmptyMap]
CorruptFile == [kind |-> "corrupt", data |-> EmptyMap]

\* json.dump(cache, f) run to its end: the text of the whole mapping.
JsonFile(c) == [kind |-> "json", data |-> c]

\* open(filepath, 'w') truncates the file to the empty text, and a dump cut
\* short leaves a strict prefix of a JSON object: neither parses.
TruncatedFile == CorruptFile

\* PhoneBook._load: the parsed file, {} when it is absent or does not parse.
Load(d) == IF d.kind = "json" THEN d.data ELSE EmptyMap

\* The mappings a file found at startup may hold: each key absent or with
\* one of InitLists.
InitialMaps == UNION {[ks -> InitLists] : ks \in SUBSET Keys}

InitialDisks == {AbsentFile, CorruptFile} \cup {JsonFile(m) : m \in InitialMaps}

\* request.reply(): an empty reply with status NOERROR.
EmptyReply == [rcode |-> "NOERROR", rr |-> <<>>]

\* No upstream call made (yet).
NoAnswers == [st |-> "none", rr |-> <<>>]

\* A thread's locals between operations.
IdleLoc ==
  [op |-> "none", qname |-> <<>>, qtype |-> "NONE", domain |-> <<>>,
   key |-> <<>>, new_data |-> <<>>, existing |-> {}, freshly_added |-> {},
   cached |-> <<>>, i |-> 0, valid_ips |-> <<>>,
   answers |-> NoAnswers, new |-> <<>>,
   reply |-> EmptyReply, ret |-> "idle",
   \* history of the operation: store reads, update calls, open() calls,
   \* upstream calls, and the addresses probed with their results
   gets |-> 0, updates |-> 0, writes |-> 0, upcalls |-> 0, probed |-> <<>>,
   \* history: the write to the file failed (open or dump raised)
   wfail |-> FALSE]

NoProbe == [open |-> {}, done |-> FALSE, ok |-> FALSE, attempts |-> <<>>]

\* No list objects: the stand-alone store is not in use.
NoMem == [objs |-> <<>>, dict |-> EmptyMap, got |-> <<>>, last |-> "none"]

\* PhoneBook.__init__: the lock is free and the cache is the loaded file.
Init ==
  /\ disk \in InitialDisks
  /\ cache = Load(disk)
  /\ saved = Load(disk)
  /\ merged = [k \in Keys |-> ValueSet(Load(disk), k)]
  /\ lock = NoThread
  /\ log = <<>>
  /\ pc = [t \in Threads |-> "idle"]
  /\ loc = [t \in Threads |-> IdleLoc]
  /\ ops = 0
  /\ probe = NoProbe
  /\ mem = NoMem
  /\ loaded = Load(disk)

\* The thread is between operations: it has run none yet, or its last one
\* has returned (pc "done") or ended with an exception (pc "raised"); the
\* locals of the last operation stay until the next one starts.
Ready(t) == pc[t] \in {"idle", "done", "raised"}

\* `with self.lock:` waits until the lock is free.
LockFreeIgnored(l) == TRUE

LockIsFree(l) == l = NoThread

\* ------------------------------------------------------- PhoneBook.get
\* `with self.lock:` entered.
GetAcquire(t) ==
  /\ pc[t] = "get_acquire"
  /\ LockIsFree(lock)
  /\ lock' = t
  /\ pc' = [pc EXCEPT ![t] = "get_read"]
  /\ UNCHANGED <<cache, disk, log, loc, saved, merged, ops, probe, mem, loaded>>

\* return list(self.cache.get(key, [])), leaving the with block.
GetRead(t) ==
  /\ pc[t] = "get_read"
  /\ loc' = [loc EXCEPT ![t].cached = CacheGet(cache, loc[t].key),
                        ![t].gets = @ + 1]
  /\ lock' = NoThread
  /\ pc' = [pc EXCEPT ![t] = loc[t].ret]
  /\ UNCHANGED <<cache, disk, log, saved, merged, ops, probe, mem, loaded>>

\* ---------------------------------------------------- PhoneBook.update
\* freshly_added = incoming - existing
FreshlyAddedAll(existing, incoming) == incoming

FreshlyAdded(existing, incoming) == incoming \ existing

\* combined = list(existing | incoming)
CombinedIncomingOnly(existing, incoming) == ListOfSet(incoming)

CombinedExistingOnly(existing, incoming) == ListOfSet(existing)

Combined(existing, incoming) == ListOfSet(existing \cup incoming)

\* `with self.lock:` entered.
UpdAcquire(t) ==
  /\ pc[t] = "upd_acquire"
  /\ LockIsFree(lock)
  /\ lock' = t
  /\ pc' = [pc EXCEPT ![t] = "upd_read"]
  /\ UNCHANGED <<cache, disk, log, loc, saved, merged, ops, probe, mem, loaded>>

\* existing, incoming and freshly_added are computed; with nothing new the
\* call returns, leaving the with block.
UpdRead(t) ==
  /\ pc[t] = "upd_read"
  /\ LET existing == ValueSet(cache, loc[t].key)
         incoming == Range(loc[t].new_data)
         freshly_added == FreshlyAdded(existing, incoming)
     IN /\ loc' = [loc EXCEPT ![t].existing = existing,
                              ![t].freshly_added = freshly_added]
        /\ IF freshly_added = {}
           THEN /\ lock' = NoThread
                /\ pc' = [pc EXCEPT ![t] = loc[t].ret]
                /\ merged' = [merged EXCEPT ![loc[t].key] = @ \cup incoming]
           ELSE /\ pc' = [pc EXCEPT ![t] = "upd_write"]
                /\ UNCHANGED <<lock, merged>>
  /\ UNCHANGED <<cache, disk, log, saved, ops, probe, mem, loaded>>

\* self.cache[key] = combined
UpdWrite(t) ==
  /\ pc[t] = "upd_write"
  /\ LET incoming == Range(loc[t].new_data)
     IN /\ cache' = CachePut(cache, loc[t].key,
                             Combined(loc[t].existing, incoming))
        /\ merged' = [merged EXCEPT ![loc[t].key] = @ \cup incoming]
  /\ pc' = [pc EXCEPT ![t] = "upd_open"]
  /\ UNCHANGED <<lock, disk, log, loc, saved, ops, probe, mem, loaded>>

\* open(self.filepath, 'w'): fails and leaves the file alone, or truncates it.
\* (Without the try around the write, a failing open would leave the with
\* block with the exception: update raises, and resolve's own try swallows
\* it before valid_ips or cached_mx is set.)
UpdOpenRaises(t) ==
  /\ pc[t] = "upd_open"
  /\ \/ /\ loc' = [loc EXCEPT ![t].writes = @ + 1, ![t].wfail = TRUE]
        /\ lock' = NoThread
        /\ pc' = [pc EXCEPT ![t] = IF loc[t].ret = "a_updated" THEN "a_reply"
                                   ELSE IF loc[t].ret = "mx_updated"
                                   THEN "mx_reply"
                                   ELSE "raised"]
        /\ UNCHANGED disk
     \/ /\ loc' = [loc EXCEPT ![t].writes = @ + 1]
        /\ disk' = TruncatedFile
        /\ pc' = [pc EXCEPT ![t] = "upd_dump"]
        /\ UNCHANGED lock
  /\ UNCHANGED <<cache, log, saved, merged, ops, probe, mem, loaded>>

UpdOpen(t) ==
  /\ pc[t] = "upd_open"
  /\ \/ /\ loc' = [loc EXCEPT ![t].writes = @ + 1, ![t].wfail = TRUE]
        /\ pc' = [pc EXCEPT ![t] = "upd_print"]
        /\ UNCHANGED disk
     \/ /\ loc' = [loc EXCEPT ![t].writes = @ + 1]
        /\ disk' = TruncatedFile
        /\ pc' = [pc EXCEPT ![t] = "upd_dump"]
  /\ UNCHANGED <<cache, lock, log, saved, merged, ops, probe, mem, loaded>>

\* json.dump(self.cache, f, indent=4): fails part-way, or writes it all.
UpdDump(t) ==
  /\ pc[t] = "upd_dump"
  /\ \/ /\ disk' = TruncatedFile
        /\ loc' = [loc EXCEPT ![t].wfail = TRUE]
        /\ UNCHANGED saved
     \/ /\ disk' = JsonFile(cache)
        /\ saved' = cache
        /\ UNCHANGED loc
  /\ pc' = [pc EXCEPT ![t] = "upd_print"]
  /\ UNCHANGED <<cache, lock, log, merged, ops, probe, mem, loaded>>

\* print(f"{key} -> {formatted} - registered"), leaving the with block.
UpdPrintIncoming(t) ==
  /\ pc[t] = "upd_print"
  /\ log' = Append(log, [key |-> loc[t].key,
                         values |-> Range(loc[t].new_data)])
  /\ lock' = NoThread
  /\ pc' = [pc EXCEPT ![t] = loc[t].ret]
  /\ UNCHANGED <<cache, disk, loc, saved, merged, ops, probe, mem, loaded>>

UpdPrint(t) ==
  /\ pc[t] = "upd_print"
  /\ log' = Append(log, [key |-> loc[t].key, values |-> loc[t].freshly_added])
  /\ lock' = NoThread
  /\ pc' = [pc EXCEPT ![t] = loc[t].ret]
  /\ UNCHANGED <<cache, disk, loc, saved, merged, ops, probe, mem, loaded>>

\* ------------------------------------------------- direct store calls
\* A thread calls phone_book.get(key).
CallGet(t) ==
  /\ Ready(t)
  /\ ops < MaxOps
  /\ \E k \in Keys :
       loc' = [loc EXCEPT ![t] = [IdleLoc EXCEPT !.op = "get", !.key = k,
                                                 !.ret = "done"]]
  /\ pc' = [pc EXCEPT ![t] = "get_acquire"]
  /\ ops' = ops + 1
  /\ UNCHANGED <<cache, lock, disk, log, saved, merged, probe, mem, loaded>>

\* A thread calls phone_book.update(key, new_data).
CallUpdate(t) ==
  /\ Ready(t)
  /\ ops < MaxOps
  /\ \E k \in Keys, nd \in ApiData :
       loc' = [loc EXCEPT ![t] = [IdleLoc EXCEPT !.op = "update", !.key = k,
                                                 !.new_data = nd, !.updates = 1,
                                                 !.ret = "done"]]
  /\ pc' = [pc EXCEPT ![t] = "upd_acquire"]
  /\ ops' = ops + 1
  /\ UNCHANGED <<cache, lock, disk, log, saved, merged, probe, mem, loaded>>

\* ------------------------------------------------------ health check
\* The port groups of check_ip_health, in the order it scans them.
WebPorts == <<443, 80>>
ChatPorts == <<5222, 5223, 5190, 6667, 6697>>
MailPorts == <<25, 465, 587, 993, 995>>
AdminPorts == <<22, 3389, 1883, 21, 53>>

Ports == Range(WebPorts) \cup Range(ChatPorts) \cup Range(MailPorts)
           \cup Range(AdminPorts)

\* The sets of at most n ports.
RECURSIVE PortSetsUpTo(_)
PortSetsUpTo(n) ==
  IF n = 0 THEN {{}}
  ELSE LET prev == PortSetsUpTo(n - 1)
       IN prev \cup {s \cup {p} : s \in prev, p \in Ports}

\* What the network may look like during one health check: the ports of
\* the probed address on which create_connection succeeds.
OpenSets == PortSetsUpTo(MaxOpen)

\* try_connect(ip, ports) when exactly the ports of `open` accept: the
\* result, and the ports a connection was attempted on, in order.
TryConnectAll(open, ports) ==
  [ok |-> \E j \in 1..Len(ports) : ports[j] \in open, attempts |-> ports]

RECURSIVE TryConnect(_, _)
TryConnect(open, ports) ==
  IF Len(ports) = 0 THEN [ok |-> FALSE, attempts |-> <<>>]
  ELSE IF Head(ports) \in open THEN [ok |-> TRUE, attempts |-> <<Head(ports)>>]
  ELSE LET rest == TryConnect(open, Tail(ports))
       IN [ok |-> rest.ok, attempts |-> <<Head(ports)>> \o rest.attempts]

\* check_ip_health(ip): the four phases, each entered only when the ones
\* before it found nothing.
CheckIpHealth(open) ==
  LET p1 == TryConnect(open, WebPorts)
      p2 == TryConnect(open, ChatPorts)
      p3 == TryConnect(open, MailPorts)
      p4 == TryConnect(open, AdminPorts)
  IN IF p1.ok THEN [ok |-> TRUE, attempts |-> p1.attempts]
     ELSE IF p2.ok THEN [ok |-> TRUE, attempts |-> p1.attempts \o p2.attempts]
     ELSE IF p3.ok
       THEN [ok |-> TRUE, attempts |-> p1.attempts \o p2.attempts \o p3.attempts]
     ELSE [ok |-> p4.ok,
           attempts |-> p1.attempts \o p2.attempts \o p3.attempts \o p4.attempts]

\* What check_ip_health may return, over the networks of OpenSets.
HealthOutcomes == {CheckIpHealth(open).ok : open \in OpenSets}

\* create_connection((ip, port)) can succeed only for text that names a
\* host: an address or a host name. Text with a colon in it (an MX entry)
\* names none, so every attempt raises OSError.
NamesHost(ip) == FirstIndex(ip, ":") = 0

\* What check_ip_health(ip) may return.
ProbeOutcomes(ip) == IF NamesHost(ip) THEN HealthOutcomes ELSE {FALSE}

\* ------------------------------------------------------ answer records
\* dnslib A(ip): the text split at the dots, each part through int().
AParts(ip) == Split(RStrip(ip, "."), ".")

\* A(ip) raises (ValueError) when a part is no integer.
ARaises(ip) == \E j \in 1..Len(AParts(ip)) : ~IsInt(AParts(ip)[j])

AData(ip) == [j \in 1..Len(AParts(ip)) |-> ToInt(AParts(ip)[j])]

\* RR(qname, QTYPE.A, rdata=A(ip), ttl=60)
ARecord(qname, ip) ==
  [rname |-> qname, rtype |-> "A", ttl |-> 60, rdata |-> AData(ip)]

\* pref, exchange = entry.split(':', 1), then int(pref): whether it raises.
MXRaises(entry) ==
  \/ FirstIndex(entry, ":") = 0
  \/ ~IsInt(SubSeq(entry, 1, FirstIndex(entry, ":") - 1))

MXPref(entry) == ToInt(SubSeq(entry, 1, FirstIndex(entry, ":") - 1))

MXExchange(entry) == SubSeq(entry, FirstIndex(entry, ":") + 1, Len(entry))

\* RR(qname, QTYPE.MX, rdata=MX(exchange, int(pref)), ttl=60)
MXRecord(qname, entry) ==
  [rname |-> qname, rtype |-> "MX", ttl |-> 60,
   rdata |-> [preference |-> MXPref(entry), exchange |-> MXExchange(entry)]]

\* The loop over cached_mx: an answer per entry that parses, the others
\* skipped by the bare except. (With the try around the whole loop, the
\* first entry that does not parse would end it.)
RECURSIVE MXAnswersAbort(_, _)
MXAnswersAbort(qname, entries) ==
  IF Len(entries) = 0 \/ MXRaises(Head(entries)) THEN <<>>
  ELSE <<MXRecord(qname, Head(entries))>>
       \o MXAnswersAbort(qname, Tail(entries))

RECURSIVE MXAnswers(_, _)
MXAnswers(qname, entries) ==
  IF Len(entries) = 0 THEN <<>>
  ELSE (IF MXRaises(Head(entries)) THEN <<>>
        ELSE <<MXRecord(qname, Head(entries))>>)
       \o MXAnswers(qname, Tail(entries))

\* -------------------------------------------- UniversalResolver.resolve
\* The branch of resolve a query type takes.
BranchNoBlock(qt) ==
  IF qt \in {"A", "AAAA"} THEN "a" ELSE IF qt = "MX" THEN "mx" ELSE "other"

Branch(qt) ==
  IF qt = "AAAA" THEN "blocked"
  ELSE IF qt = "A" THEN "a"
  ELSE IF qt = "MX" THEN "mx"
  ELSE "other"

\* The status of an A reply without answers, and of an MX reply without.
ANoAnswerRcodeSoft == "NOERROR"

ANoAnswerRcode == "SERVFAIL"

MXNoAnswerRcode == "NOERROR"

\* resolve(request, handler) up to the dispatch on qtype: AAAA and the
\* unhandled types return at once, A and MX call phone_book.get.
Resolve(t) ==
  /\ Ready(t)
  /\ ops < MaxOps
  /\ \E qn \in QNames, qt \in QTypes :
       LET domain == DomainOf(qn)
           frame == [IdleLoc EXCEPT !.op = "resolve", !.qname = qn,
                                    !.qtype = qt, !.domain = domain]
       IN IF Branch(qt) = "a"
          THEN /\ loc' = [loc EXCEPT ![t] = [frame EXCEPT !.key = domain,
                                                          !.ret = "a_probe"]]
               /\ pc' = [pc EXCEPT ![t] = "get_acquire"]
          ELSE IF Branch(qt) = "mx"
          THEN /\ loc' = [loc EXCEPT ![t] = [frame EXCEPT !.key = MXKey(domain),
                                                          !.ret = "mx_check"]]
               /\ pc' = [pc EXCEPT ![t] = "get_acquire"]
          ELSE /\ loc' = [loc EXCEPT ![t] =
                            [frame EXCEPT !.reply.rcode = "NOERROR"]]
               /\ pc' = [pc EXCEPT ![t] = "done"]
  /\ ops' = ops + 1
  /\ UNCHANGED <<cache, lock, disk, log, saved, merged, probe, mem, loaded>>

\* One turn of `for ip in cached_ips`: check_ip_health(ip) against whatever
\* the network is at that moment.
AProbeTrustAll(t) ==
  /\ pc[t] = "a_probe"
  /\ loc[t].i < Len(loc[t].cached)
  /\ \E ok \in ProbeOutcomes(loc[t].cached[loc[t].i + 1]) :
       LET ip == loc[t].cached[loc[t].i + 1]
       IN loc' = [loc EXCEPT
                    ![t].i = @ + 1,
                    ![t].valid_ips = Append(@, ip),
                    ![t].probed = Append(@, [ip |-> ip, ok |-> ok])]
  /\ UNCHANGED <<cache, lock, disk, log, pc, saved, merged, ops, probe, mem,
                 loaded>>

AProbe(t) ==
  /\ pc[t] = "a_probe"
  /\ loc[t].i < Len(loc[t].cached)
  /\ \E ok \in ProbeOutcomes(loc[t].cached[loc[t].i + 1]) :
       LET ip == loc[t].cached[loc[t].i + 1]
       IN loc' = [loc EXCEPT
                    ![t].i = @ + 1,
                    ![t].valid_ips = IF ok THEN Append(@, ip) ELSE @,
                    ![t].probed = Append(@, [ip |-> ip, ok |-> ok])]
  /\ UNCHANGED <<cache, lock, disk, log, pc, saved, merged, ops, probe, mem,
                 loaded>>

\* The loop is over: `if not valid_ips`.
AProbeEnd(t) ==
  /\ pc[t] = "a_probe"
  /\ loc[t].i = Len(loc[t].cached)
  /\ pc' = [pc EXCEPT ![t] = IF loc[t].valid_ips = <<>> THEN "a_upstream"
                             ELSE "a_reply"]
  /\ UNCHANGED <<cache, lock, disk, log, loc, saved, merged, ops, probe, mem,
                 loaded>>

\* upstream.resolve(domain, 'A') raises, or answers; a non-empty answer is
\* handed to phone_book.update. (AUpstreamForget answers without the call
\* of update.)
AUpstreamForget(t) ==
  /\ pc[t] = "a_upstream"
  /\ \/ /\ loc' = [loc EXCEPT ![t].answers = [st |-> "raised", rr |-> <<>>],
                              ![t].upcalls = @ + 1]
        /\ pc' = [pc EXCEPT ![t] = "a_reply"]
     \/ \E answers \in UpstreamA :
          LET new_ips == [j \in 1..Len(answers) |-> StrA(answers[j])]
          IN /\ loc' = [loc EXCEPT
                          ![t].answers = [st |-> "ok", rr |-> answers],
                          ![t].new = new_ips,
                          ![t].upcalls = @ + 1,
                          ![t].new_data = new_ips,
                          ![t].ret = "a_updated"]
             /\ pc' = [pc EXCEPT ![t] = IF new_ips # <<>> THEN "a_updated"
                                        ELSE "a_reply"]
  /\ UNCHANGED <<cache, lock, disk, log, saved, merged, ops, probe, mem,
                 loaded>>

AUpstream(t) ==
  /\ pc[t] = "a_upstream"
  /\ \/ /\ loc' = [loc EXCEPT ![t].answers = [st |-> "raised", rr |-> <<>>],
                              ![t].upcalls = @ + 1]
        /\ pc' = [pc EXCEPT ![t] = "a_reply"]
     \/ \E answers \in UpstreamA :
          LET new_ips == [j \in 1..Len(answers) |-> StrA(answers[j])]
          IN /\ loc' = [loc EXCEPT
                          ![t].answers = [st |-> "ok", rr |-> answers],
                          ![t].new = new_ips,
                          ![t].upcalls = @ + 1,
                          ![t].new_data = new_ips,
                          ![t].updates = IF new_ips # <<>> THEN @ + 1 ELSE @,
                          ![t].ret = "a_updated"]
             /\ pc' = [pc EXCEPT ![t] = IF new_ips # <<>> THEN "upd_acquire"
                                        ELSE "a_reply"]
  /\ UNCHANGED <<cache, lock, disk, log, saved, merged, ops, probe, mem,
                 loaded>>

\* valid_ips = new_ips, after update has returned.
AUpdatedKeepCached(t) ==
  /\ pc[t] = "a_updated"
  /\ loc' = [loc EXCEPT ![t].valid_ips = loc[t].cached \o loc[t].new]
  /\ pc' = [pc EXCEPT ![t] = "a_reply"]
  /\ UNCHANGED <<cache, lock, disk, log, saved, merged, ops, probe, mem,
                 loaded>>

AUpdated(t) ==
  /\ pc[t] = "a_updated"
  /\ loc' = [loc EXCEPT ![t].valid_ips = loc[t].new]
  /\ pc' = [pc EXCEPT ![t] = "a_reply"]
  /\ UNCHANGED <<cache, lock, disk, log, saved, merged, ops, probe, mem,
                 loaded>>

\* The answers are added, or the status is set to SERVFAIL; A(ip) raising
\* ends resolve with the exception.
AReply(t) ==
  /\ pc[t] = "a_reply"
  /\ LET valid_ips == loc[t].valid_ips
     IN IF valid_ips = <<>>
        THEN /\ loc' = [loc EXCEPT ![t].reply.rcode = ANoAnswerRcode]
             /\ pc' = [pc EXCEPT ![t] = "done"]
        ELSE IF \E j \in 1..Len(valid_ips) : ARaises(valid_ips[j])
        THEN /\ pc' = [pc EXCEPT ![t] = "raised"]
             /\ UNCHANGED loc
        ELSE /\ loc' = [loc EXCEPT ![t].reply.rr =
                          [j \in 1..Len(valid_ips) |->
                             ARecord(loc[t].qname, valid_ips[j])]]
             /\ pc' = [pc EXCEPT ![t] = "done"]
  /\ UNCHANGED <<cache, lock, disk, log, saved, merged, ops, probe, mem,
                 loaded>>

\* `if not cached_mx`
MxCheckAlways(t) ==
  /\ pc[t] = "mx_check"
  /\ pc' = [pc EXCEPT ![t] = "mx_upstream"]
  /\ UNCHANGED <<cache, lock, disk, log, loc, saved, merged, ops, probe, mem,
                 loaded>>

MxCheck(t) ==
  /\ pc[t] = "mx_check"
  /\ pc' = [pc EXCEPT ![t] = IF loc[t].cached = <<>> THEN "mx_upstream"
                             ELSE "mx_reply"]
  /\ UNCHANGED <<cache, lock, disk, log, loc, saved, merged, ops, probe, mem,
                 loaded>>

\* upstream.resolve(domain, 'MX') raises, or answers; a non-empty answer is
\* handed to phone_book.update.
MxUpstream(t) ==
  /\ pc[t] = "mx_upstream"
  /\ \/ /\ loc' = [loc EXCEPT ![t].answers = [st |-> "raised", rr |-> <<>>],
                              ![t].upcalls = @ + 1]
        /\ pc' = [pc EXCEPT ![t] = "mx_reply"]
     \/ \E answers \in UpstreamMX :
          LET new_mx == [j \in 1..Len(answers) |-> FormatMX(answers[j])]
          IN /\ loc' = [loc EXCEPT
                          ![t].answers = [st |-> "ok", rr |-> answers],
                          ![t].new = new_mx,
                          ![t].upcalls = @ + 1,
                          ![t].new_data = new_mx,
                          ![t].updates = IF new_mx # <<>> THEN @ + 1 ELSE @,
                          ![t].ret = "mx_updated"]
             /\ pc' = [pc EXCEPT ![t] = IF new_mx # <<>> THEN "upd_acquire"
                                        ELSE "mx_reply"]
  /\ UNCHANGED <<cache, lock, disk, log, saved, merged, ops, probe, mem,
                 loaded>>

\* cached_mx = new_mx, after update has returned.
MxUpdated(t) ==
  /\ pc[t] = "mx_updated"
  /\ loc' = [loc EXCEPT ![t].cached = loc[t].new]
  /\ pc' = [pc EXCEPT ![t] = "mx_reply"]
  /\ UNCHANGED <<cache, lock, disk, log, saved, merged, ops, probe, mem,
                 loaded>>

\* The answers of the entries that parse, or NOERROR with none.
MxReply(t) ==
  /\ pc[t] = "mx_reply"
  /\ loc' = [loc EXCEPT ![t].reply =
               IF loc[t].cached # <<>>
               THEN [@ EXCEPT !.rr = MXAnswers(loc[t].qname, loc[t].cached)]
               ELSE [@ EXCEPT !.rcode = MXNoAnswerRcode]]
  /\ pc' = [pc EXCEPT ![t] = "done"]
  /\ UNCHANGED <<cache, lock, disk, log, saved, merged, ops, probe, mem,
                 loaded>>

ResolveNext ==
  \E t \in Threads :
    \/ Resolve(t)
    \/ AProbe(t) \/ AProbeEnd(t) \/ AUpstream(t) \/ AUpdated(t) \/ AReply(t)
    \/ MxCheck(t) \/ MxUpstream(t) \/ MxUpdated(t) \/ MxReply(t)

StoreNext ==
  \E t \in Threads :
    \/ GetAcquire(t) \/ GetRead(t)
    \/ UpdAcquire(t) \/ UpdRead(t) \/ UpdWrite(t)
    \/ UpdOpen(t) \/ UpdDump(t) \/ UpdPrint(t)
    \/ CallGet(t) \/ CallUpdate(t)

Next == StoreNext \/ ResolveNext

Spec == Init /\ [][Next]_vars

\* ------------------------------------- check_ip_health on its own
\* A stand-alone call of check_ip_health against each network of OpenSets;
\* the store is left as constructed from an absent file.
InitProbe ==
  /\ disk = AbsentFile
  /\ cache = EmptyMap
  /\ saved = EmptyMap
  /\ merged = [k \in Keys |-> {}]
  /\ lock = NoThread
  /\ log = <<>>
  /\ pc = [t \in Threads |-> "idle"]
  /\ loc = [t \in Threads |-> IdleLoc]
  /\ ops = 0
  /\ probe \in {[NoProbe EXCEPT !.open = o] : o \in OpenSets}
  /\ mem = NoMem
  /\ loaded = EmptyMap

ProbeCall ==
  /\ ~probe.done
  /\ LET r == CheckIpHealth(probe.open)
     IN probe' = [open |-> probe.open, done |-> TRUE, ok |-> r.ok,
                  attempts |-> r.attempts]
  /\ UNCHANGED <<cache, lock, disk, log, pc, loc, saved, merged, ops, mem,
                 loaded>>

SpecProbe == InitProbe /\ [][ProbeCall]_vars

\* ------------------------------------- the store's lists as objects
\* A stand-alone PhoneBook used by one caller, with its lists kept as
\* objects: mem.objs holds every list object made (its index is its
\* identity), mem.dict is self.cache as Python has it (key -> the object
\* bound to it), and mem.got holds the results of the get calls: the key,
\* the object handed to the caller, and its content at the return.
\* The mapping a dict of objects stands for.
View(m) == [k \in DOMAIN m.dict |-> m.objs[m.dict[k]]]

\* The objects json.load builds for a mapping: one list per key.
MemOf(c) ==
  LET ks == ListOfSet(DOMAIN c)
  IN [objs |-> [j \in 1..Len(ks) |-> c[ks[j]]],
      dict |-> [k \in DOMAIN c |-> CHOOSE j \in 1..Len(ks) : ks[j] = k],
      got |-> <<>>, last |-> "none"]

\* self.cache.get(key, []): the object bound to the key, or a new empty
\* list. The result is the heap and the object found.
DictGet(m, key) ==
  IF key \in DOMAIN m.dict THEN [objs |-> m.objs, id |-> m.dict[key]]
  ELSE [objs |-> Append(m.objs, <<>>), id |-> Len(m.objs) + 1]

\* list(x): a new object with the elements of x.
ListShared(h) == h

ListCopy(h) == [objs |-> Append(h.objs, h.objs[h.id]), id |-> Len(h.objs) + 1]

InitAlias ==
  /\ disk \in InitialDisks
  /\ cache = Load(disk)
  /\ saved = Load(disk)
  /\ merged = [k \in Keys |-> ValueSet(Load(disk), k)]
  /\ lock = NoThread
  /\ log = <<>>
  /\ pc = [t \in Threads |-> "idle"]
  /\ loc = [t \in Threads |-> IdleLoc]
  /\ ops = 0
  /\ probe = NoProbe
  /\ mem = MemOf(Load(disk))
  /\ loaded = Load(disk)

\* get(key): the lock is taken, the copy made and returned, the lock freed.
AliasGet ==
  /\ ops < MaxCalls
  /\ LockIsFree(lock)
  /\ \E key \in Keys :
       LET h == ListCopy(DictGet(mem, key))
       IN mem' = [mem EXCEPT
                    !.objs = h.objs,
                    !.got = Append(@, [key |-> key, id |-> h.id,
                                       value |-> h.objs[h.id]]),
                    !.last = "get"]
  /\ ops' = ops + 1
  /\ UNCHANGED <<cache, lock, disk, log, pc, loc, saved, merged, probe, loaded>>

\* The caller changes a list it got: appends a value or removes the first.
AliasMutate ==
  /\ ops < MaxCalls
  /\ \E g \in 1..Len(mem.got) :
       LET id == mem.got[g].id
           old == mem.objs[id]
       IN \E new \in {Append(old, IP2)} \cup
                      (IF old = <<>> THEN {} ELSE {Tail(old)}) :
            /\ mem' = [mem EXCEPT !.objs[id] = new, !.last = "mutate"]
            /\ cache' = View(mem')
  /\ ops' = ops + 1
  /\ UNCHANGED <<lock, disk, log, pc, loc, saved, merged, probe, loaded>>

\* update(key, new_data), from taking the lock to freeing it.
AliasUpdate ==
  /\ ops < MaxCalls
  /\ LockIsFree(lock)
  /\ \E key \in Keys, new_data \in ApiData :
       LET existing == IF key \in DOMAIN mem.dict
                       THEN Range(mem.objs[mem.dict[key]]) ELSE {}
           incoming == Range(new_data)
           freshly_added == FreshlyAdded(existing, incoming)
           combined == Combined(existing, incoming)
           after == [mem EXCEPT
                       !.objs = Append(@, combined),
                       !.dict = CachePut(@, key, Len(mem.objs) + 1),
                       !.last = "update"]
       IN /\ merged' = [merged EXCEPT ![key] = @ \cup incoming]
          /\ IF freshly_added = {}
             THEN /\ mem' = [mem EXCEPT !.last = "update"]
                  /\ UNCHANGED <<cache, disk, saved, log>>
             ELSE /\ mem' = after
                  /\ cache' = View(after)
                  /\ \/ UNCHANGED <<disk, saved>>
                     \/ disk' = TruncatedFile /\ UNCHANGED saved
                     \/ disk' = JsonFile(View(after)) /\ saved' = View(after)
                  /\ log' = Append(log, [key |-> key, values |-> freshly_added])
  /\ ops' = ops + 1
  /\ UNCHANGED <<lock, pc, loc, probe, loaded>>

AliasNext == AliasGet \/ AliasMutate \/ AliasUpdate

SpecAlias == InitAlias /\ [][AliasNext]_vars

\* ------------------------------------------- an MX query on its own
\* The example host of the MX round trip, and the stored entries an MX key
\* may hold: well formed, without a colon, with a preference that is no
\* integer or is empty, with a second colon, and with leading zeros.
MailHost ==
  <<"m", "a", "i", "l", ".", "e", "x", "a", "m", "p", "l", "e", ".", "c", "o", "m">>
MailEntry == <<"1", "0", ":">> \o MailHost
MXEntries ==
  {MailEntry, MXE, HOST, <<"x", ":", "m", ".">>, <<":", "m", ".">>,
   <<"1", "0", ":", "m", ":", "x">>, <<"0", "0", "7", ":", "h">>}

\* The lists of one or two different entries.
MXLists ==
  {<<e>> : e \in MXEntries}
    \cup {<<p[1], p[2]>> : p \in {q \in MXEntries \X MXEntries : q[1] # q[2]}}

\* An MX query for a. has been dispatched (resolve up to its call of
\* phone_book.get) on a store loaded from a file that holds one of MXLists
\* under the key, or from no file.
InitMX ==
  /\ disk \in {AbsentFile} \cup
              {JsonFile([k \in {MXKey(DomainOf(<<"a", ".">>))} |-> l]) :
                 l \in MXLists}
  /\ cache = Load(disk)
  /\ saved = Load(disk)
  /\ merged = [k \in Keys |-> ValueSet(Load(disk), k)]
  /\ lock = NoThread
  /\ log = <<>>
  /\ pc = [t \in Threads |-> IF t = 1 THEN "get_acquire" ELSE "idle"]
  /\ loc = [t \in Threads |->
              IF t = 1
              THEN [IdleLoc EXCEPT !.op = "resolve", !.qname = <<"a", ".">>,
                                   !.qtype = "MX",
                                   !.domain = DomainOf(<<"a", ".">>),
                                   !.key = MXKey(DomainOf(<<"a", ".">>)),
                                   !.ret = "mx_check"]
              ELSE IdleLoc]
  /\ ops = 1
  /\ probe = NoProbe
  /\ mem = NoMem
  /\ loaded = Load(disk)

\* The steps of an MX query: the store's and the MX branch's.
MXNext ==
  \E t \in Threads :
    \/ GetAcquire(t) \/ GetRead(t)
    \/ UpdAcquire(t) \/ UpdRead(t) \/ UpdWrite(t)
    \/ UpdOpen(t) \/ UpdDump(t) \/ UpdPrint(t)
    \/ MxCheck(t) \/ MxUpstream(t) \/ MxUpdated(t) \/ MxReply(t)

SpecMX == InitMX /\ [][MXNext]_vars

\* ------------------------------------------------------------ properties
\* The positions inside update's with block, and inside any with block.
UpdPcs == {"upd_read", "upd_write", "upd_open", "upd_dump", "upd_print"}

InCS(t) == pc[t] \in UpdPcs \cup {"get_read"}

\* The update call of thread t's operation has returned.
UpdateReturned(t) ==
  loc[t].updates = 1 /\ pc[t] \notin UpdPcs \cup {"upd_acquire"}

\* C1. Store merge monotonicity: in every step no key disappears and no
\* key loses a value, and after every step the value set of each key is
\* the set loaded at startup united with the lists of all the update calls
\* merged so far -- whatever the threads and the outcomes of the writes.
MergeMonotonicity ==
  [][ /\ \A k \in DOMAIN cache :
           k \in DOMAIN cache' /\ Range(cache[k]) \subseteq Range(cache'[k])
      /\ \A k \in Keys : ValueSet(cache', k) = merged'[k]
    ]_vars

\* Two updates have each added values to one key, and a write has failed.
MergeTwiceWitness ==
  /\ Len(log) = 2
  /\ log[1].key = log[2].key
  /\ lock = NoThread
  /\ cache # saved

\* C2. Atomic merge: at most one thread is inside the with block of get or
\* update, and it holds the lock; and no update is lost: once an update
\* call has returned, the key holds every value the call was given,
\* however the calls of the other threads were interleaved with it.
AtomicMerge ==
  /\ Cardinality({t \in Threads : InCS(t)}) <= 1
  /\ \A t \in Threads : InCS(t) => lock = t
  /\ \A t \in Threads :
       UpdateReturned(t) =>
         Range(loc[t].new_data) \subseteq ValueSet(cache, loc[t].key)

\* One thread is about to write its merge while another waits to update the
\* same key with other values.
ConcurrentUpdateWitness ==
  \E t, u \in Threads :
    /\ pc[t] = "upd_write"
    /\ pc[u] = "upd_acquire"
    /\ loc[t].key = loc[u].key
    /\ Range(loc[u].new_data) \ Range(loc[t].new_data) # {}
    /\ Range(loc[u].new_data) \ loc[t].existing # {}

\* C3. Disk snapshot consistency, as claimed: whenever no dump is under
\* way, the file parses to the mapping of the last successful write (or to
\* what was loaded at startup).
DiskSnapshotConsistency ==
  (\A t \in Threads : pc[t] # "upd_dump") => Load(disk) = saved

\* C4. No-op merge: an update whose values are all stored already returns
\* at once and changes neither the cache, the file nor the log; the file is
\* opened for writing only by an update that has found a value not stored
\* before, and by the time such an update returns, exactly once.
NoOpMerge ==
  [][ \A t \in Threads :
        /\ ( /\ pc[t] = "upd_read"
             /\ pc'[t] # "upd_read"
             /\ Range(loc[t].new_data) \subseteq ValueSet(cache, loc[t].key) )
           => /\ cache' = cache /\ disk' = disk /\ log' = log
              /\ pc'[t] = loc[t].ret
              /\ loc'[t].writes = 0
        /\ (loc'[t].writes > loc[t].writes \/ (pc[t] = "upd_dump" /\ pc'[t] # "upd_dump"))
           => /\ loc[t].freshly_added # {}
              /\ loc[t].freshly_added \cap loc[t].existing = {}
              /\ loc[t].freshly_added \subseteq Range(loc[t].new_data)
              /\ loc'[t].writes = 1
        /\ (disk' # disk) => \E u \in Threads : pc[u] \in {"upd_open", "upd_dump"}
        /\ (pc[t] = "upd_print" /\ pc'[t] # "upd_print")
           => loc[t].writes = 1
    ]_vars

\* An update with a non-empty list of values that were all stored already
\* has returned.
NoOpMergeWitness ==
  \E t \in Threads :
    /\ loc[t].op = "update"
    /\ pc[t] = "done"
    /\ loc[t].new_data # <<>>
    /\ loc[t].freshly_added = {}
    /\ loc[t].writes = 0

\* resolve has returned a reply to thread t's query of type qt.
Replied(t, qt) ==
  pc[t] = "done" /\ loc[t].op = "resolve" /\ loc[t].qtype = qt

\* Every address thread t probed failed on all ports.
AllDead(t) == \A j \in 1..Len(loc[t].probed) : ~loc[t].probed[j].ok

\* The upstream resolver answered thread t with at least one record.
UpstreamGave(t) == loc[t].answers.st = "ok" /\ loc[t].answers.rr # <<>>

\* The upstream resolver raised, or answered thread t with nothing.
UpstreamFailed(t) ==
  \/ loc[t].answers.st = "raised"
  \/ loc[t].answers.st = "ok" /\ loc[t].answers.rr = <<>>

\* The rdata of the answers of thread t's reply, in order.
ReplyData(t) == [j \in 1..Len(loc[t].reply.rr) |-> loc[t].reply.rr[j].rdata]

\* An A query found only dead addresses in the cache and the upstream
\* resolver then gave addresses.
DeadCacheCase(t) ==
  Replied(t, "A") /\ loc[t].cached # <<>> /\ AllDead(t) /\ UpstreamGave(t)

DeadCacheFallbackState ==
  \A t \in Threads :
    DeadCacheCase(t) =>
      /\ ReplyData(t) = loc[t].answers.rr
      /\ \A j \in 1..Len(loc[t].reply.rr) : loc[t].reply.rr[j].rtype = "A"
      /\ [j \in 1..Len(loc[t].probed) |-> loc[t].probed[j].ip] = loc[t].cached
      /\ Range(loc[t].cached) \cup Range(loc[t].new)
           \subseteq ValueSet(cache, loc[t].domain)

\* C5. Dead-cache fallback: when an A query has found only dead addresses
\* in the cache and the upstream resolver has answered with the addresses
\* U, the reply holds exactly the addresses of U, only the cached addresses
\* were probed, and the store holds every previously cached address and
\* every address of U under the domain; the merge itself stores exactly the
\* union of what the key held and U.
DeadCacheFallback ==
  [][ /\ DeadCacheFallbackState'
      /\ \A t \in Threads :
           (pc[t] = "upd_write" /\ pc'[t] # "upd_write") =>
             ValueSet(cache', loc[t].key) =
               ValueSet(cache, loc[t].key) \cup Range(loc[t].new_data)
    ]_vars

\* The case has happened with upstream addresses that differ from the
\* cached ones.
DeadCacheWitness ==
  \E t \in Threads :
    /\ DeadCacheCase(t)
    /\ Range(loc[t].new) \cap Range(loc[t].cached) = {}
    /\ Len(loc[t].reply.rr) = 2

\* An A query found nothing in the cache and the upstream resolver then
\* gave addresses.
FallbackCase(t) ==
  Replied(t, "A") /\ loc[t].cached = <<>> /\ UpstreamGave(t)

\* C6. Address fallback chain: when an A query has found no cached address
\* and the upstream resolver has answered with the addresses U, the reply
\* has status NOERROR and holds exactly the addresses of U, the store holds
\* them, and every get of the domain that reads after the reply was
\* returned yields every address of U.
AddressFallbackChain ==
  [][ /\ \A t \in Threads :
           FallbackCase(t)' =>
             /\ loc'[t].reply.rcode = "NOERROR"
             /\ ReplyData(t)' = loc'[t].answers.rr
             /\ Range(loc'[t].new) \subseteq ValueSet(cache', loc'[t].domain)
      /\ \A t, u \in Threads :
           ( /\ FallbackCase(t)
             /\ pc[u] = "get_read" /\ pc'[u] # "get_read"
             /\ loc[u].key = loc[t].domain )
           => Range(loc[t].new) \subseteq Range(loc'[u].cached)
    ]_vars

\* After the reply to such a query, another thread's get(domain) has
\* returned.
FallbackWitness ==
  \E t, u \in Threads :
    /\ FallbackCase(t)
    /\ loc[u].op = "get" /\ pc[u] = "done"
    /\ loc[u].key = loc[t].domain
    /\ Range(loc[t].new) \subseteq Range(loc[u].cached)

\* A query found nothing in the cache and got nothing from upstream.
TotalFailure(t, qt) ==
  Replied(t, qt) /\ loc[t].cached = <<>> /\ UpstreamFailed(t)

\* C7. Total failure asymmetry: with nothing cached and an upstream that
\* raises or answers with nothing, an A query is answered SERVFAIL and an
\* MX query NOERROR, both without answers and without any update call or
\* write by the request.
FailureAsymmetry ==
  \A t \in Threads :
    /\ TotalFailure(t, "A") =>
         /\ loc[t].reply = [rcode |-> "SERVFAIL", rr |-> <<>>]
         /\ loc[t].updates = 0 /\ loc[t].writes = 0
    /\ TotalFailure(t, "MX") =>
         /\ loc[t].reply = [rcode |-> "NOERROR", rr |-> <<>>]
         /\ loc[t].updates = 0 /\ loc[t].writes = 0

\* An A query and an MX query have both failed that way.
FailureAsymmetryWitness ==
  \E t, u \in Threads :
    /\ TotalFailure(t, "A") /\ loc[t].answers.st = "raised"
    /\ TotalFailure(u, "MX") /\ loc[u].answers.st = "raised"

\* C8. Error propagation policy, as claimed: resolve always returns a
\* reply, with status SERVFAIL or NOERROR; SERVFAIL exactly for an A query
\* with no reachable cached address and no upstream address, and a reply
\* without answers has status NOERROR otherwise.
ErrorPropagationPolicy ==
  \A t \in Threads :
    /\ pc[t] # "raised"
    /\ (pc[t] = "done" /\ loc[t].op = "resolve") =>
         /\ loc[t].reply.rcode \in {"SERVFAIL", "NOERROR"}
         /\ loc[t].reply.rcode = "SERVFAIL" <=>
              /\ loc[t].qtype = "A"
              /\ \A j \in 1..Len(loc[t].probed) : ~loc[t].probed[j].ok
              /\ ~UpstreamGave(t)
         /\ loc[t].reply.rcode = "SERVFAIL" => loc[t].reply.rr = <<>>

\* The order in which check_ip_health is claimed to try the ports.
PortOrder ==
  <<443, 80, 5222, 5223, 5190, 6667, 6697, 25, 465, 587, 993, 995,
    22, 3389, 1883, 21, 53>>

\* C9. Probe order and short-circuit: the ports a health check attempts
\* are an initial stretch of the fixed order 443, 80, ..., 21, 53; every
\* attempt but the last failed; the check returns true exactly when its last
\* attempt succeeded, and false only after all seventeen ports failed.
ProbeOrderShortCircuit ==
  probe.done =>
    LET a == probe.attempts
        n == Len(a)
    IN /\ n \in 1..Len(PortOrder)
       /\ a = SubSeq(PortOrder, 1, n)
       /\ \A j \in 1..(n - 1) : a[j] \notin probe.open
       /\ probe.ok <=> a[n] \in probe.open
       /\ ~probe.ok => n = Len(PortOrder)
       /\ ~probe.ok <=> probe.open \cap Range(PortOrder) = {}

\* A check found the ninth port of the order open and stopped there, a
\* later port being open too.
ProbeShortCircuitWitness ==
  /\ probe.done /\ probe.ok
  /\ Len(probe.attempts) = 9
  /\ Cardinality(probe.open) = 2

\* C10. AAAA suppression: an AAAA query is answered at once with status
\* NOERROR and no answers, without any store read or update, health probe,
\* upstream call or write; the step that answers it leaves the cache, the
\* file, the log and the lock as they were.
AAAASuppression ==
  [][ /\ \A t \in Threads :
           (loc'[t].op = "resolve" /\ loc'[t].qtype = "AAAA") =>
             /\ pc'[t] = "done"
             /\ loc'[t].reply = [rcode |-> "NOERROR", rr |-> <<>>]
             /\ loc'[t].gets = 0 /\ loc'[t].updates = 0 /\ loc'[t].writes = 0
             /\ loc'[t].upcalls = 0 /\ loc'[t].probed = <<>>
      /\ ( /\ ops' # ops
           /\ \E t \in Threads :
                /\ loc'[t].op = "resolve" /\ loc'[t].qtype = "AAAA"
                /\ \A u \in Threads \ {t} : pc'[u] = pc[u] /\ loc'[u] = loc[u] )
         => UNCHANGED <<cache, disk, log, lock, saved>>
    ]_vars

\* An AAAA query was answered while the store held values for its domain.
AAAAWitness ==
  \E t \in Threads :
    /\ Replied(t, "AAAA")
    /\ CacheGet(cache, loc[t].domain) # <<>>

\* The reply an A or MX query gives once its update call has returned: the
\* upstream records, one answer each, with status NOERROR.
ReplyOfUpstream(t) ==
  /\ loc[t].reply.rcode = "NOERROR"
  /\ ReplyData(t) = loc[t].answers.rr
  /\ \A j \in 1..Len(loc[t].reply.rr) :
       /\ loc[t].reply.rr[j].rtype = loc[t].qtype
       /\ loc[t].reply.rr[j].rname = loc[t].qname

\* C11. Disk-write failure is swallowed: an update that adds a value and
\* whose write fails (open or dump raises) goes on to its print and returns
\* as one whose write succeeded does; at its return the key holds exactly
\* the old values and the given ones, and the lock is released; a get of
\* the key that reads afterwards returns them all; and the query that
\* called the update is answered with the upstream records and NOERROR,
\* the same reply as after a successful write.
WriteFailureSwallowed ==
  [][ \A t \in Threads :
        /\ loc'[t].wfail =>
             /\ pc'[t] # "raised"
             /\ loc'[t].freshly_added # {}
             /\ pc'[t] \in UpdPcs => pc'[t] = "upd_print" /\ lock' = t
             /\ pc'[t] \notin UpdPcs => lock' # t
        /\ (pc[t] = "upd_print" /\ pc'[t] # "upd_print") =>
             /\ pc'[t] = loc[t].ret
             /\ lock' = NoThread
             /\ ValueSet(cache', loc[t].key) =
                  loc[t].existing \cup Range(loc[t].new_data)
        /\ (loc[t].writes = 1 /\ Replied(t, loc[t].qtype))' => ReplyOfUpstream(t)'
        /\ \A u \in Threads :
             ( /\ loc[t].wfail /\ UpdateReturned(t)
               /\ pc[u] = "get_read" /\ pc'[u] # "get_read"
               /\ loc[u].key = loc[t].key )
             => loc[t].existing \cup Range(loc[t].new_data)
                  \subseteq Range(loc'[u].cached)
    ]_vars

\* An A query whose update could not write the file has been answered, the
\* file now being unreadable, and another thread has read the key since.
WriteFailureWitness ==
  \E t, u \in Threads :
    /\ Replied(t, "A") /\ loc[t].wfail
    /\ disk = TruncatedFile /\ cache # saved
    /\ Len(loc[t].reply.rr) = 2
    /\ lock = NoThread
    /\ loc[u].op = "get" /\ pc[u] = "done" /\ loc[u].key = loc[t].key
    /\ Range(loc[t].new) \subseteq Range(loc[u].cached)

\* C12. Isolation of reads: the list get returns is an object of its own.
\* A change the caller makes to it leaves every list of the store as it
\* was; a later get of the key returns the stored values, that is the
\* loaded ones and those merged since, whatever was done to earlier
\* results; and an update leaves every list returned earlier as it was.
ReadIsolation ==
  [][ /\ mem'.last = "mutate" =>
           /\ mem'.dict = mem.dict
           /\ View(mem') = View(mem)
           /\ cache' = cache
      /\ mem'.last = "update" =>
           \A g \in 1..Len(mem.got) :
             mem'.objs[mem.got[g].id] = mem.objs[mem.got[g].id]
      /\ (mem'.last = "get" /\ ops' # ops) =>
           LET r == mem'.got[Len(mem'.got)]
           IN /\ r.value = CacheGet(cache, r.key)
              /\ Range(r.value) = merged[r.key]
              /\ \A k \in DOMAIN mem.dict : r.id # mem'.dict[k]
              /\ \A g \in 1..Len(mem.got) : r.id # mem.got[g].id
    ]_vars

\* A list returned by get was changed by the caller, and a later get of the
\* same key, which holds values, has returned.
ReadIsolationWitness ==
  /\ Len(mem.got) = 2
  /\ mem.got[1].key = mem.got[2].key
  /\ mem.objs[mem.got[1].id] # mem.got[1].value
  /\ mem.got[2].value # <<>>
  /\ mem.last = "get"

\* Thread t probed the address with rdata a (under some stored text): the
\* results of those probes.
ProbesOf(t, a) ==
  {loc[t].probed[j].ok : j \in {i \in 1..Len(loc[t].probed) :
      /\ ~ARaises(loc[t].probed[i].ip)
      /\ AData(loc[t].probed[i].ip) = a}}

\* The rdata of the stored addresses whose probe succeeded, in probe order.
RECURSIVE PassedData(_)
PassedData(probed) ==
  IF Len(probed) = 0 THEN <<>>
  ELSE (IF Head(probed).ok THEN <<AData(Head(probed).ip)>> ELSE <<>>)
       \o PassedData(Tail(probed))

\* C13 as claimed. Only live addresses are trusted: an address of the reply
\* that was read from the store had its probe succeed in that request, and
\* no address whose probe failed in the request is in its reply.
OnlyLiveTrusted ==
  \A t \in Threads :
    Replied(t, "A") =>
      \A j \in 1..Len(loc[t].reply.rr) :
        FALSE \notin ProbesOf(t, loc[t].reply.rr[j].rdata)

\* C13 as amended. An address read from the store is placed in the reply
\* only if its probe succeeded in that request: a reply made without
\* upstream addresses holds exactly the stored addresses whose probe
\* succeeded; an address whose probes all failed is in the reply only when
\* the upstream resolver returned it in that request, which it is asked
\* only after every probe failed.
OnlyLiveOrUpstream ==
  \A t \in Threads :
    Replied(t, "A") =>
      /\ ~UpstreamGave(t) => ReplyData(t) = PassedData(loc[t].probed)
      /\ UpstreamGave(t) => AllDead(t) /\ ReplyData(t) = loc[t].answers.rr
      /\ \A j \in 1..Len(loc[t].reply.rr) :
           LET a == loc[t].reply.rr[j].rdata
           IN \/ TRUE \in ProbesOf(t, a)
              \/ UpstreamGave(t) /\ \E i \in 1..Len(loc[t].answers.rr) :
                                       loc[t].answers.rr[i] = a

\* A stored address failed its probe and the upstream resolver returned
\* the same address, which the reply holds; another query was answered
\* from a stored address whose probe succeeded.
OnlyLiveWitness ==
  \E t, u \in Threads :
    /\ Replied(t, "A") /\ UpstreamGave(t)
    /\ \E j \in 1..Len(loc[t].reply.rr) :
         ProbesOf(t, loc[t].reply.rr[j].rdata) = {FALSE}
    /\ Replied(u, "A") /\ ~UpstreamGave(u)
    /\ Len(loc[u].reply.rr) = 1
    /\ \E j \in 1..Len(loc[u].probed) : ~loc[u].probed[j].ok

\* Thread t's A query has ended: with a reply, or with an exception.
AQueryEnded(t) ==
  loc[t].op = "resolve" /\ loc[t].qtype = "A" /\ pc[t] \in {"done", "raised"}

\* A stored address of thread t's query passed its probe.
SomePassed(t) == \E j \in 1..Len(loc[t].probed) : loc[t].probed[j].ok

\* C14. Cache-first address policy, as claimed: an A query probes each
\* cached address once, in the order get returned them; if one passes, the
\* reply holds exactly the addresses that passed, and neither the upstream
\* resolver nor update is called; the upstream resolver is called exactly
\* when none passed, and once.
CacheFirstPolicy ==
  \A t \in Threads :
    AQueryEnded(t) =>
      /\ [j \in 1..Len(loc[t].probed) |-> loc[t].probed[j].ip] = loc[t].cached
      /\ loc[t].upcalls = (IF SomePassed(t) THEN 0 ELSE 1)
      /\ SomePassed(t) =>
           /\ loc[t].updates = 0 /\ loc[t].writes = 0
           /\ pc[t] = "done"
           /\ loc[t].reply.rcode = "NOERROR"
           /\ ReplyData(t) = PassedData(loc[t].probed)

\* What holds of an MX query once it is answered.
MXPolicyFinal(t) ==
  /\ loc[t].gets = 1 /\ loc[t].probed = <<>> /\ loc[t].upcalls <= 1
  /\ loc[t].upcalls = 0 =>
       /\ loc[t].cached # <<>>
       /\ Range(loc[t].cached) \subseteq ValueSet(cache, loc[t].key)
       /\ loc[t].updates = 0 /\ loc[t].writes = 0
       /\ loc[t].reply = [rcode |-> "NOERROR",
                          rr |-> MXAnswers(loc[t].qname, loc[t].cached)]
  /\ (loc[t].upcalls = 1 /\ UpstreamGave(t)) =>
       /\ loc[t].updates = 1
       /\ loc[t].new = [j \in 1..Len(loc[t].answers.rr) |->
                          IntStr(loc[t].answers.rr[j].preference) \o <<":">>
                            \o loc[t].answers.rr[j].exchange]
       /\ Range(loc[t].new) \subseteq ValueSet(cache, loc[t].key)
       /\ loc[t].reply = [rcode |-> "NOERROR",
                          rr |-> MXAnswers(loc[t].qname, loc[t].new)]
       /\ Len(loc[t].reply.rr) = Len(loc[t].answers.rr)
  /\ (loc[t].upcalls = 1 /\ ~UpstreamGave(t)) =>
       /\ loc[t].updates = 0 /\ loc[t].writes = 0
       /\ loc[t].reply = [rcode |-> "NOERROR", rr |-> <<>>]

\* C15. Mail-exchange cache policy: an MX query reads the key "MX:" +
\* domain once and probes nothing; the upstream resolver is called exactly
\* when that read returned no entry, and once; with an entry stored the
\* answer is built from the stored entries, without upstream call or
\* update; a non-empty upstream answer is stored under the key as
\* preference:exchange strings and the answer is built from those.
MXCachePolicy ==
  [][ \A t \in Threads :
        (loc'[t].op = "resolve" /\ loc'[t].qtype = "MX") =>
          /\ loc'[t].key = <<"M", "X", ":">> \o RStrip(loc'[t].qname, ".")
          /\ (pc[t] = "get_read" /\ pc'[t] # "get_read") =>
               /\ pc'[t] = "mx_check"
               /\ loc'[t].cached = CacheGet(cache, loc[t].key)
          /\ (pc[t] = "mx_check" /\ pc'[t] # "mx_check") =>
               /\ loc[t].upcalls = 0
               /\ pc'[t] = (IF loc[t].cached = <<>> THEN "mx_upstream"
                            ELSE "mx_reply")
          /\ loc'[t].upcalls # loc[t].upcalls =>
               \/ pc[t] = "mx_upstream" /\ loc'[t].upcalls = 1
               \/ Ready(t) /\ loc'[t].upcalls = 0
          /\ Replied(t, "MX")' => MXPolicyFinal(t)'
    ]_vars

\* One MX query was answered from the upstream resolver, and another from
\* the entry the first had stored.
MXCachePolicyWitness ==
  \E t, u \in Threads :
    /\ Replied(t, "MX") /\ UpstreamGave(t)
    /\ Replied(u, "MX") /\ loc[u].upcalls = 0
    /\ loc[u].cached = loc[t].new
    /\ Len(loc[u].reply.rr) = 1

\* The answer an MX entry is claimed to give: none, or one with the
\* preference and the host, case by case.
ExpectedMX(e) ==
  CASE e = MailEntry -> <<[preference |-> 10, exchange |-> MailHost]>>
    [] e = <<"1", "0", ":", "m", ".">> ->
         <<[preference |-> 10, exchange |-> <<"m", ".">>]>>
    [] e = <<"0", "0", "7", ":", "h">> ->
         <<[preference |-> 7, exchange |-> <<"h">>]>>
    [] e = <<"1", "0", ":", "m", ":", "x">> ->
         <<[preference |-> 10, exchange |-> <<"m", ":", "x">>]>>
    [] OTHER -> <<>>

RECURSIVE ExpectedMXData(_)
ExpectedMXData(entries) ==
  IF Len(entries) = 0 THEN <<>>
  ELSE ExpectedMX(Head(entries)) \o ExpectedMXData(Tail(entries))

\* C16. Mail-exchange reply construction: the reply to an MX query holds,
\* for the entries used (stored, or just given by the upstream resolver)
\* and in their order, one MX answer per well-formed entry, with the
\* integer before the first colon as preference and the text after it as
\* exchange, and none for a malformed entry; the status is NOERROR whatever
\* the entries are.
MXReplyConstruction ==
  \A t \in Threads :
    Replied(t, "MX") =>
      /\ loc[t].reply.rcode = "NOERROR"
      /\ ReplyData(t) = ExpectedMXData(loc[t].cached)
      /\ \A j \in 1..Len(loc[t].reply.rr) :
           /\ loc[t].reply.rr[j].rtype = "MX"
           /\ loc[t].reply.rr[j].rname = loc[t].qname

\* A reply was built from a malformed entry followed by the entry
\* 10:mail.example.com: one answer, preference 10, that host.
MXReplyWitness ==
  \E t \in Threads :
    /\ Replied(t, "MX")
    /\ Len(loc[t].cached) = 2
    /\ loc[t].cached[1] = <<"x", ":", "m", ".">>
    /\ loc[t].cached[2] = MailEntry
    /\ ReplyData(t) = <<[preference |-> 10, exchange |-> MailHost]>>

\* The positions of a thread that holds no lock: between operations,
\* waiting for the lock, and in resolve outside get and update.
OutsidePcs ==
  {"idle", "done", "raised", "get_acquire", "upd_acquire", "a_probe",
   "a_upstream", "a_updated", "a_reply", "mx_check", "mx_upstream",
   "mx_updated", "mx_reply"}

\* C17. Request termination and lock release, as claimed, in the form a
\* finite run refutes: a resolve call that has ended has returned a reply;
\* it has made at most one health check per cached address and at most one
\* upstream call; and the lock is held only inside the with blocks of get
\* and update, so it is free on every exit path and during every health
\* probe and upstream call.
RequestTermination ==
  \A t \in Threads :
    /\ pc[t] \in OutsidePcs => lock # t
    /\ (\A u \in Threads : pc[u] \in OutsidePcs) => lock = NoThread
    /\ loc[t].upcalls <= 1
    /\ Len(loc[t].probed) <= Len(loc[t].cached)
    /\ (loc[t].op = "resolve" /\ Ready(t)) => pc[t] = "done"

\* A bound on the steps thread t still takes before its operation ends.
StepsLeft(t) ==
  LET after == CASE loc[t].ret = "a_updated" -> 2
                 [] loc[t].ret = "mx_updated" -> 2
                 [] OTHER -> 0
  IN CASE pc[t] \in {"idle", "done", "raised"} -> 0
       [] pc[t] = "get_acquire" -> 102
       [] pc[t] = "get_read" -> 101
       [] pc[t] = "a_probe" -> 20 + 2 * (Len(loc[t].cached) - loc[t].i)
       [] pc[t] = "mx_check" -> 11
       [] pc[t] \in {"a_upstream", "mx_upstream"} -> 10
       [] pc[t] = "upd_acquire" -> 6 + after
       [] pc[t] = "upd_read" -> 5 + after
       [] pc[t] = "upd_write" -> 4 + after
       [] pc[t] = "upd_open" -> 3 + after
       [] pc[t] = "upd_dump" -> 2 + after
       [] pc[t] = "upd_print" -> 1 + after
       [] pc[t] \in {"a_updated", "mx_updated"} -> 2
       [] pc[t] \in {"a_reply", "mx_reply"} -> 1

\* What does hold of termination: every step of a thread inside an
\* operation lowers StepsLeft, which is never negative, so no operation
\* runs forever; and a thread waits only for the lock, which is then held
\* by a thread inside a with block, where no step waits for anything.
StepsDecrease ==
  [][ \A t \in Threads :
        /\ StepsLeft(t)' >= 0
        /\ (~Ready(t) /\ <<pc[t], loc[t]>>' # <<pc[t], loc[t]>>) =>
             StepsLeft(t)' < StepsLeft(t)
        /\ (pc'[t] \in {"get_acquire", "upd_acquire"} /\ lock' # NoThread) =>
             pc'[lock'] \in UpdPcs \cup {"get_read"}
        /\ pc'[t] = "a_probe" => loc'[t].i <= Len(loc'[t].cached)
    ]_vars

\* The values the log reports as registered for a key.
Reported(k) ==
  UNION {log[i].values : i \in {j \in 1..Len(log) : log[j].key = k}}

\* No value is reported twice for a key, and for every key that no update
\* is between its merge and its print, the reported values are the stored
\* ones that were not there at startup.
LogMatchesStore ==
  /\ \A i, j \in 1..Len(log) :
       (i # j /\ log[i].key = log[j].key) =>
         log[i].values \cap log[j].values = {}
  /\ \A k \in Keys :
       (\A t \in Threads :
          ~(loc[t].key = k /\ pc[t] \in {"upd_open", "upd_dump", "upd_print"}))
       => Reported(k) = ValueSet(cache, k) \ ValueSet(loaded, k)

\* C18. Registration log exactness: the log grows only by the one line an
\* update prints before it returns, and that line names the key and
\* exactly the values the update added (those given that the key did not
\* hold); an update that adds nothing returns without a line, and one that
\* adds a value goes on to its print; so no (key, value) is reported twice
\* and the reported values of a key are its stored ones minus those
\* loaded at startup.
LogExactness ==
  [][ /\ log' # log =>
           \E t \in Threads :
             /\ pc[t] = "upd_print" /\ pc'[t] = loc[t].ret
             /\ Range(loc[t].new_data) \ loc[t].existing # {}
             /\ log' = Append(log,
                         [key |-> loc[t].key,
                          values |-> Range(loc[t].new_data) \ loc[t].existing])
             /\ loc[t].existing \cup Range(loc[t].new_data)
                  = ValueSet(cache, loc[t].key)
      /\ \A t \in Threads :
           /\ (pc[t] = "upd_read" /\ pc'[t] # "upd_read") =>
                IF Range(loc[t].new_data) \subseteq ValueSet(cache, loc[t].key)
                THEN pc'[t] = loc[t].ret /\ log' = log
                ELSE pc'[t] = "upd_write"
           /\ (pc[t] \in {"upd_write", "upd_open", "upd_dump"}
                 /\ pc'[t] # pc[t]) =>
                pc'[t] \in {"upd_open", "upd_dump", "upd_print"}
           /\ (pc[t] = "upd_print" /\ pc'[t] # "upd_print") =>
                Len(log') = Len(log) + 1
      /\ LogMatchesStore'
    ]_vars

\* Two updates have each added values to a key that held a value at
\* startup, and both lines are in the log.
LogExactnessWitness ==
  /\ Len(log) = 2
  /\ log[1].key = log[2].key
  /\ ValueSet(loaded, log[1].key) # {}
  /\ lock = NoThread
  /\ Cardinality(ValueSet(cache, log[1].key)) = 3

\* The address a (rdata) is stored under key k: some stored text reads as a.
Remembered(k, a) ==
  \E ip \in ValueSet(cache, k) : ~ARaises(ip) /\ AData(ip) = a

\* C19. Answered addresses are remembered: once an A query has returned a
\* reply, every address of the reply is stored under the domain of the
\* query (the domain, not the MX key), whatever the other thread has done
\* in between.
AnsweredRemembered ==
  \A t \in Threads :
    Replied(t, "A") =>
      \A j \in 1..Len(loc[t].reply.rr) :
        Remembered(RStrip(loc[t].qname, "."), loc[t].reply.rr[j].rdata)

\* One A query was answered with two upstream addresses and another from
\* the store.
AnsweredRememberedWitness ==
  \E t, u \in Threads :
    /\ Replied(t, "A") /\ UpstreamGave(t) /\ Len(loc[t].reply.rr) = 2
    /\ Replied(u, "A") /\ loc[u].upcalls = 0 /\ Len(loc[u].reply.rr) >= 1

\* The one key a query may change: the domain for an A query, "MX:" and
\* the domain for an MX query.
KeyOfQuery(qname, qtype) ==
  IF qtype = "MX" THEN <<"M", "X", ":">> \o RStrip(qname, ".")
  ELSE RStrip(qname, ".")

\* C20. Key frame: a step that changes the store changes one key, that of
\* the update call making the step, and leaves the list of every other
\* key as it was; the update call of a query is for the domain (A query)
\* or for "MX:" + domain (MX query), the domain being the query name
\* without its trailing dots, and a query of another type calls no update.
KeyFrame ==
  [][ /\ cache' # cache =>
           \E t \in Threads :
             /\ pc[t] = "upd_write"
             /\ DOMAIN cache' = DOMAIN cache \cup {loc[t].key}
             /\ \A k \in DOMAIN cache' \ {loc[t].key} : cache'[k] = cache[k]
             /\ loc[t].op = "resolve" =>
                  /\ loc[t].qtype \in {"A", "MX"}
                  /\ loc[t].key = KeyOfQuery(loc[t].qname, loc[t].qtype)
      /\ \A t \in Threads :
           loc'[t].op = "resolve" =>
             /\ loc'[t].qtype \notin {"A", "MX"} =>
                  loc'[t].updates = 0 /\ pc'[t] \notin UpdPcs
             /\ loc'[t].qtype \in {"A", "MX"} =>
                  loc'[t].key = KeyOfQuery(loc'[t].qname, loc'[t].qtype)
    ]_vars

\* An A query and an MX query for the same domain have each stored what
\* the upstream resolver gave, under two keys.
KeyFrameWitness ==
  \E t, u \in Threads :
    /\ Replied(t, "A") /\ UpstreamGave(t) /\ loc[t].writes = 1
    /\ Replied(u, "MX") /\ UpstreamGave(u) /\ loc[u].writes = 1
    /\ loc[t].key # loc[u].key
    /\ ValueSet(cache, loc[t].key) \cap ValueSet(cache, loc[u].key) = {}

====
